---- MODULE Spec2Model ----
(***************************************************************************)
(* Model of github.com/xenolog/slog, v0/syslog_handler.go: the SyslogProxy *)
(* (connection, buffer, line-forwarding drain) and the SyslogHandler that  *)
(* renders into the proxy buffer and drains it under the proxy mutex.      *)
(*                                                                         *)
(* Byte strings are sequences of one-character strings.                    *)
(***************************************************************************)
EXTENDS Integers, Sequences, FiniteSets, TLC

\* ------------------------------------------------------------------ bounds
\* Number of goroutines of the concurrent specification.
NThreads == 2
\* Total number of writes into the proxy buffer (renderer invocations and
\* direct writes through Writer()).
MaxWrites == 3
\* Total number of calls the goroutines of the concurrent specification make.
MaxCalls == 3
\* Number of successful dials (connection handles ever created).
MaxConns == 2
\* bufio.Scanner's initial buffer size (4096 in the library), scaled down.
StartBufSize == 2
\* bufio.MaxScanTokenSize (65536 in the library), scaled down.
MaxScanTokenSize == 4

\* --------------------------------------------------------------- constants
\* defaultDialTimeout: substituted when Connect is given a zero timeout.
defaultDialTimeout == 30

NL == "\n"
CR == "\r"

Min(a, b) == IF a < b THEN a ELSE b

Last(s) == s[Len(s)]

\* Index of the first occurrence of c in s, 0 when absent (strings.Index).
RECURSIVE IndexFrom(_, _, _)
IndexFrom(s, c, i) ==
    IF i > Len(s) THEN 0
    ELSE IF s[i] = c THEN i
    ELSE IndexFrom(s, c, i + 1)

Index(s, c) == IndexFrom(s, c, 1)

\* Index of the last occurrence of c in s, 0 when absent (strings.LastIndex).
RECURSIVE LastIndexFrom(_, _, _)
LastIndexFrom(s, c, i) ==
    IF i < 1 THEN 0
    ELSE IF s[i] = c THEN i
    ELSE LastIndexFrom(s, c, i - 1)

LastIndex(s, c) == LastIndexFrom(s, c, Len(s))

HasPrefix(s, p) == Len(s) >= Len(p) /\ SubSeq(s, 1, Len(p)) = p

Drop(s, n) == SubSeq(s, n + 1, Len(s))

Take(s, n) == SubSeq(s, 1, n)

\* =================================================================
\* bufio.Scanner over the proxy's bytes.Buffer (ProcessLines, line 149)
\* =================================================================

\* bufio.dropCR: a trailing carriage return is removed from a token.
dropCR(data) ==
    IF Len(data) > 0 /\ Last(data) = CR THEN Take(data, Len(data) - 1) ELSE data

\* Mutant: an unterminated rest of the input is dropped at EOF instead of
\* being returned as the last token.
ScanLinesNoFinal(data, atEOF) ==
    LET i == Index(data, NL) IN
    IF i > 0 THEN [adv |-> i, has |-> TRUE, tok |-> dropCR(Take(data, i - 1))]
    ELSE [adv |-> 0, has |-> FALSE, tok |-> <<>>]

\* bufio.ScanLines: the split function of the default Scanner.
\* has = the returned token is non-nil; adv = bytes consumed.
ScanLines(data, atEOF) ==
    LET i == Index(data, NL) IN
    IF atEOF /\ Len(data) = 0 THEN [adv |-> 0, has |-> FALSE, tok |-> <<>>]
    ELSE IF i > 0 THEN [adv |-> i, has |-> TRUE, tok |-> dropCR(Take(data, i - 1))]
    ELSE IF atEOF THEN [adv |-> Len(data), has |-> TRUE, tok |-> dropCR(data)]
    ELSE [adv |-> 0, has |-> FALSE, tok |-> <<>>]

\* A fresh scanner: no buffer allocated, nothing read, no error.
\* data = buf[start:end], cap = len(buf).
NewScanner == [data |-> <<>>, start |-> 0, cap |-> 0, err |-> "nil"]

\* One call of Scanner.Scan reading from the byte source src (the unread
\* part of the bytes.Buffer).  Returns the scanner, what is left of the
\* source, whether a token was produced, and the token.
RECURSIVE ScanLoop(_, _)

\* The next iteration of Scan's loop, on the values of the scanner and of
\* the source after the read.
ScanAgain(sc, src) == CHOOSE r \in {ScanLoop(s, b) : s \in {sc}, b \in {src}} : TRUE

ScanLoop(sc, src) ==
    LET sp == ScanLines(sc.data, sc.err # "nil")
        try == Len(sc.data) > 0 \/ sc.err # "nil"
    IN
    IF try /\ sp.has
    THEN [sc |-> [sc EXCEPT !.data = Drop(sc.data, sp.adv),
                            !.start = sc.start + sp.adv],
          src |-> src, ok |-> TRUE, tok |-> sp.tok]
    ELSE IF sc.err # "nil"
    THEN [sc |-> [sc EXCEPT !.data = <<>>, !.start = 0],
          src |-> src, ok |-> FALSE, tok |-> <<>>]
    ELSE
      LET end0 == sc.start + Len(sc.data)
          \* shift data to the beginning of the buffer
          shift == sc.start > 0 /\ (end0 = sc.cap \/ 2 * sc.start > sc.cap)
          start1 == IF shift THEN 0 ELSE sc.start
          end1 == start1 + Len(sc.data)
          full == end1 = sc.cap
      IN
      IF full /\ sc.cap >= MaxScanTokenSize
      THEN [sc |-> [sc EXCEPT !.start = start1, !.err = "ErrTooLong"],
            src |-> src, ok |-> FALSE, tok |-> <<>>]
      ELSE
        LET cap2 == IF ~full THEN sc.cap
                    ELSE IF sc.cap = 0 THEN Min(StartBufSize, MaxScanTokenSize)
                    ELSE Min(2 * sc.cap, MaxScanTokenSize)
            start2 == IF full THEN 0 ELSE start1
            end2 == start2 + Len(sc.data)
            room == cap2 - end2
            \* bytes.Buffer.Read: io.EOF when empty, else copies what fits
            n == Min(room, Len(src))
        IN
        IF Len(src) = 0
        THEN ScanAgain([sc EXCEPT !.start = start2, !.cap = cap2, !.err = "EOF"], src)
        ELSE ScanAgain([sc EXCEPT !.data = sc.data \o Take(src, n),
                                  !.start = start2, !.cap = cap2],
                       Drop(src, n))

\* Mutant: what the scanner has read beyond the token it returns is put
\* back into the source.
ScanUnread(sc, src) ==
    LET r == ScanLoop(sc, src) IN
    [r EXCEPT !.sc = [r.sc EXCEPT !.data = <<>>], !.src = r.sc.data \o r.src]

Scan(sc, src) == ScanLoop(sc, src)

\* Scanner.Err: io.EOF is not reported as an error.
ScannerErr(sc) == IF sc.err = "EOF" THEN "nil" ELSE sc.err

\* =================================================================
\* The line transform (SyslogHandlerOptions.LineProcessFunc)
\* =================================================================

\* Stub transforms a caller can install: the identity; one that returns the
\* line already terminated; one that returns an empty slice; one that fails
\* on every line that starts with "b" and is the identity otherwise.
Transforms == {"id", "nl", "empty", "errb"}

processFunc(tr, line) ==
    CASE tr = "id"    -> [err |-> "nil", out |-> line]
      [] tr = "nl"    -> [err |-> "nil", out |-> Append(line, NL)]
      [] tr = "empty" -> [err |-> "nil", out |-> <<>>]
      [] tr = "errb"  -> IF Len(line) > 0 /\ line[1] = "b"
                         THEN [err |-> "ErrTransform", out |-> <<>>]
                         ELSE [err |-> "nil", out |-> line]

\* =================================================================
\* net/url.Parse as used by Connect (lines 92-105)
\* =================================================================

LowerLetters == {"a", "c", "d", "h", "i", "n", "p", "q", "s", "t", "u", "x"}

UpperLetters == {"C", "F", "P", "T"}

Digits == {"3", "5"}

toLowerChar(c) ==
    CASE c = "C" -> "c"
      [] c = "F" -> "f"
      [] c = "P" -> "p"
      [] c = "T" -> "t"
      [] OTHER -> c

ToLower(s) == [i \in 1..Len(s) |-> toLowerChar(s[i])]

\* url.getScheme
RECURSIVE getSchemeFrom(_, _)
getSchemeFrom(raw, i) ==
    IF i > Len(raw) THEN [err |-> FALSE, scheme |-> <<>>, rest |-> raw]
    ELSE LET c == raw[i] IN
      IF c \in LowerLetters \cup UpperLetters THEN getSchemeFrom(raw, i + 1)
      ELSE IF c \in Digits \cup {"+", "-", "."}
      THEN IF i = 1 THEN [err |-> FALSE, scheme |-> <<>>, rest |-> raw]
           ELSE getSchemeFrom(raw, i + 1)
      ELSE IF c = ":"
      THEN IF i = 1 THEN [err |-> TRUE, scheme |-> <<>>, rest |-> <<>>]
           ELSE [err |-> FALSE, scheme |-> Take(raw, i - 1), rest |-> Drop(raw, i)]
      ELSE [err |-> FALSE, scheme |-> <<>>, rest |-> raw]

getScheme(raw) == getSchemeFrom(raw, 1)

\* url.ishex / url.unhex on the characters of the model's alphabet
ishex(c) == c \in {"3", "5", "F", "a", "c", "d"}

unhex(c) ==
    CASE c = "3" -> 3
      [] c = "5" -> 5
      [] c = "F" -> 15
      [] c = "a" -> 10
      [] c = "c" -> 12
      [] c = "d" -> 13
      [] OTHER -> 0

\* The character with a given byte value; bytes the alphabet has no
\* character for are one opaque character.
chr(n) ==
    CASE n = 35 -> "#"
      [] n = 37 -> "%"
      [] n = 47 -> "/"
      [] n = 51 -> "3"
      [] n = 53 -> "5"
      [] n = 58 -> ":"
      [] n = 63 -> "?"
      [] OTHER -> "\\x"

\* url.unescape: every %XX is decoded; a % not followed by two hex digits is
\* an error.  In host mode an escape of a byte below 0x80 other than %25 is
\* an error too.
RECURSIVE unescapeFrom(_, _, _, _)
unescapeFrom(s, i, hostMode, acc) ==
    IF i > Len(s) THEN [err |-> FALSE, out |-> acc]
    ELSE IF s[i] # "%" THEN unescapeFrom(s, i + 1, hostMode, Append(acc, s[i]))
    ELSE IF i + 2 > Len(s) \/ ~ishex(s[i + 1]) \/ ~ishex(s[i + 2])
    THEN [err |-> TRUE, out |-> <<>>]
    ELSE IF hostMode /\ unhex(s[i + 1]) < 8 /\ SubSeq(s, i, i + 2) # <<"%", "2", "5">>
    THEN [err |-> TRUE, out |-> <<>>]
    ELSE unescapeFrom(s, i + 3, hostMode,
                      Append(acc, chr(16 * unhex(s[i + 1]) + unhex(s[i + 2]))))

unescape(s, hostMode) == unescapeFrom(s, 1, hostMode, <<>>)

\* url.validOptionalPort applied to host[i:], i the last colon
validOptionalPort(port) ==
    port = <<>> \/ (port[1] = ":" /\ \A k \in 2..Len(port) : port[k] \in Digits)

\* url.parseHost (no IPv6 literals in the alphabet)
parseHost(host) ==
    LET i == LastIndex(host, ":") IN
    IF i > 0 /\ ~validOptionalPort(Drop(host, i - 1))
    THEN [err |-> TRUE, out |-> <<>>]
    ELSE unescape(host, TRUE)

\* url.parseAuthority: the user information up to the last @ is split off
parseAuthority(authority) ==
    LET i == LastIndex(authority, "@") IN
    IF i = 0 THEN parseHost(authority) ELSE parseHost(Drop(authority, i))

\* url.Parse: fragment cut off, scheme split off and lower-cased, query cut
\* off, a rootless rest kept opaque, the authority parsed, the path unescaped.
urlParse(rawURL) ==
    LET f == Index(rawURL, "#")
        u == IF f > 0 THEN Take(rawURL, f - 1) ELSE rawURL
        gs == getScheme(u)
        scheme == ToLower(gs.scheme)
        q == Index(gs.rest, "?")
        rest == IF q > 0 THEN Take(gs.rest, q - 1) ELSE gs.rest
        bad == [err |-> TRUE, Scheme |-> <<>>, Host |-> <<>>, Path |-> <<>>]
        seg1 == IF Index(rest, "/") > 0 THEN Take(rest, Index(rest, "/") - 1) ELSE rest
    IN
    IF gs.err THEN bad
    ELSE IF ~HasPrefix(rest, <<"/">>) /\ scheme # <<>>
    THEN [err |-> FALSE, Scheme |-> scheme, Host |-> <<>>, Path |-> <<>>]
    ELSE IF ~HasPrefix(rest, <<"/">>) /\ Index(seg1, ":") > 0
    THEN bad
    ELSE
      LET hasAuth == (scheme # <<>> \/ ~HasPrefix(rest, <<"/", "/", "/">>))
                     /\ HasPrefix(rest, <<"/", "/">>)
          a0 == Drop(rest, 2)
          sl == Index(a0, "/")
          authority == IF sl > 0 THEN Take(a0, sl - 1) ELSE a0
          pathRaw == IF ~hasAuth THEN rest
                     ELSE IF sl > 0 THEN Drop(a0, sl - 1) ELSE <<>>
          h == IF hasAuth THEN parseAuthority(authority) ELSE [err |-> FALSE, out |-> <<>>]
          p == unescape(pathRaw, FALSE)
      IN
      IF h.err \/ p.err THEN bad
      ELSE [err |-> FALSE, Scheme |-> scheme, Host |-> h.out, Path |-> p.out]

\* allowedProto (line 39)
allowedProto == {<<"t", "c", "p">>, <<"u", "d", "p">>, <<"u", "n", "i", "x">>}

\* The address Connect dials: the path for unix, the host otherwise
\* (lines 99-104).
connectAddr(u) == IF u.Scheme = <<"u", "n", "i", "x">> THEN u.Path ELSE u.Host

\* fmt.Sprintf("%s://%s", proto, addr) (line 105)
normalizedURL(u) == u.Scheme \o <<":", "/", "/">> \o connectAddr(u)

\* net.DialTimeout can succeed only on a dialable address: a non-empty
\* socket path for unix, host:port with a non-empty port otherwise.
dialable(proto, addr) ==
    IF proto = <<"u", "n", "i", "x">> THEN addr # <<>>
    ELSE LastIndex(addr, ":") > 0 /\ LastIndex(addr, ":") < Len(addr)

\* =================================================================
\* State
\* =================================================================

VARIABLES
    buf,      \* SyslogProxy.buf: the unread bytes of the bytes.Buffer
    url,      \* SyslogProxy.url: the stored destination
    conn,     \* SyslogProxy.conn: 0 is nil, else a connection handle
    timeout,  \* SyslogProxy.timeout
    mu,       \* SyslogProxy.mu: 0 is unlocked, else the goroutine holding it
    conns,    \* connection handles ever dialed: "open" or "closed"
    wire,     \* every byte a conn.Write has sent, in order: [conn, b]
    budget,   \* calls that may still be started, by their cost
    pc,       \* per goroutine: the statement it is at
    loc,      \* per goroutine: arguments, locals and the call's entry state
    handlers, \* the SyslogHandler structs allocated so far; a *SyslogHandler
              \* is an index into this sequence
    renderers,\* the downstream slog.Handler values; a handler's downstream
              \* is an index into this sequence
    last      \* the last call on a SyslogHandler or a renderer, and its result

vars == <<buf, url, conn, timeout, mu, conns, wire, budget, pc, loc,
          handlers, renderers, last>>

Threads == 1..NThreads

\* Entry state of a call, kept to state what the call changed.
Snapshot == [url |-> url, conn |-> conn, timeout |-> timeout, conns |-> conns]

NoSnapshot == [url |-> <<>>, conn |-> 0, timeout |-> 0, conns |-> <<>>]

\* A goroutine that is in no call.
Idle ==
    [op |-> "none",         \* the public method being executed
     arg |-> <<>>,          \* Connect: the url argument
     to |-> 0,              \* Connect: the timeout argument, then the local
     tr |-> "id",           \* Handle/ProcessLines: the line transform
     rec |-> <<>>,          \* Handle: what the renderer writes for the record
     rok |-> TRUE,          \* Handle: whether the renderer succeeds
     proto |-> <<>>,        \* Connect: proto
     addr |-> <<>>,         \* Connect: addr
     c |-> 0,               \* Connect: the dialed connection
     sc |-> NewScanner,     \* ProcessLines: scanner
     line |-> <<>>,         \* ProcessLines: the transformed line
     res |-> "",            \* the error returned ("nil" for success)
     pre |-> NoSnapshot,    \* Connect: the proxy's fields at the call
     locked |-> FALSE,      \* the call acquired the mutex
     rendered |-> FALSE,    \* Handle: the downstream renderer was invoked
     dialed |-> <<>>,       \* Connect: the <<proto, addr>> it dialed
     drain |-> FALSE,       \* ProcessLines was entered
     dbuf |-> <<>>,         \* buffer when ProcessLines was entered
     dwire |-> 0,           \* Len(wire) when ProcessLines was entered
     wfail |-> FALSE,       \* a conn.Write of this drain failed
     toks |-> <<>>]         \* the non-empty lines this drain's scanner returned

\* No call on a handler or renderer has been made.
NoCall == [op |-> "none", recv |-> 0, arg |-> <<>>, derived |-> 0, ret |-> 0]

\* The proxy as NewSyslogProxy returns it (lines 207-216); no goroutine is
\* in a call, no handler and no downstream renderer exists.
Constructed ==
    /\ buf = <<>>
    /\ url = <<>>
    /\ conn = 0
    /\ timeout = 0
    /\ mu = 0
    /\ conns = <<>>
    /\ wire = <<>>
    /\ pc = [t \in Threads |-> "idle"]
    /\ loc = [t \in Threads |-> Idle]
    /\ handlers = <<>>
    /\ renderers = <<>>
    /\ last = NoCall

\* Leave a call: in Handle and Connect the deferred Unlock runs first.
Exit(t, res, l) ==
    /\ loc' = [loc EXCEPT ![t] = [l EXCEPT !.res = res]]
    /\ pc' = [pc EXCEPT ![t] = IF mu = t THEN "unlock" ELSE "ret"]

Goto(t, label, l) ==
    /\ loc' = [loc EXCEPT ![t] = l]
    /\ pc' = [pc EXCEPT ![t] = label]

\* -----------------------------------------------------------------
\* SyslogProxy.Writer().Write called directly
\* -----------------------------------------------------------------
WriteChunks == {<<"a", "a">>, <<NL>>, <<"a", NL>>, <<"b", NL>>}

CallWrite(t, data) ==
    /\ pc[t] = "idle"
    /\ budget > 0
    /\ buf' = buf \o data
    /\ budget' = budget - 1
    /\ UNCHANGED <<url, conn, timeout, mu, conns, wire, pc, loc, handlers, renderers, last>>

\* -----------------------------------------------------------------
\* SyslogProxy.Disconnect (lines 130-135), also called by Connect
\* -----------------------------------------------------------------
CallDisconnect(t, cost) ==
    /\ pc[t] = "idle"
    /\ budget >= cost
    /\ budget' = budget - cost
    /\ Goto(t, "D_check", [Idle EXCEPT !.op = "Disconnect"])
    /\ UNCHANGED <<buf, url, conn, timeout, mu, conns, wire, handlers, renderers, last>>

\* Where Disconnect returns to.
AfterDisconnect(t, l) ==
    IF l.op = "Connect" THEN Goto(t, "C_install", l) ELSE Exit(t, "nil", l)

\* if s.conn != nil
D_check(t) ==
    /\ pc[t] = "D_check"
    /\ IF conn # 0 THEN Goto(t, "D_close", loc[t]) ELSE AfterDisconnect(t, loc[t])
    /\ UNCHANGED <<buf, url, conn, timeout, mu, conns, wire, budget, handlers, renderers, last>>

\* s.conn.Close(): a nil s.conn is a nil dereference
D_close(t) ==
    /\ pc[t] = "D_close"
    /\ IF conn = 0
       THEN Exit(t, "panic", loc[t]) /\ UNCHANGED conns
       ELSE Goto(t, "D_nil", loc[t]) /\ conns' = [conns EXCEPT ![conn] = "closed"]
    /\ UNCHANGED <<buf, url, conn, timeout, mu, wire, budget, handlers, renderers, last>>

\* s.conn = nil
D_nil(t) ==
    /\ pc[t] = "D_nil"
    /\ conn' = 0
    /\ AfterDisconnect(t, loc[t])
    /\ UNCHANGED <<buf, url, timeout, mu, conns, wire, budget, handlers, renderers, last>>

\* -----------------------------------------------------------------
\* SyslogProxy.Connect (lines 83-124)
\* -----------------------------------------------------------------
S_tcp == <<"t", "c", "p">>

S_unix == <<"u", "n", "i", "x">>

S_sep == <<":", "/", "/">>

\* tcp://h:5
U_tcp == S_tcp \o S_sep \o <<"h", ":", "5">>

\* udp://h:5
U_udp == <<"u", "d", "p">> \o S_sep \o <<"h", ":", "5">>

\* unix:///s
U_unix == S_unix \o S_sep \o <<"/", "s">>

\* http://x
U_http == <<"h", "t", "t", "p">> \o S_sep \o <<"x">>

\* TCP://u@h:5/p?q#q
U_long == <<"T", "C", "P">> \o S_sep \o <<"u", "@", "h", ":", "5", "/", "p", "?", "q", "#", "q">>

\* unix://h/s
U_unixhost == S_unix \o S_sep \o <<"h", "/", "s">>

\* unix:///s%3Fq
U_unixesc == S_unix \o S_sep \o <<"/", "s", "%", "3", "F", "q">>

\* tcp:h:5
U_opaque == S_tcp \o <<":", "h", ":", "5">>

\* ://x
U_noscheme == S_sep \o <<"x">>

\* tcp://h:p
U_badport == S_tcp \o S_sep \o <<"h", ":", "p">>

\* Destination arguments of the sequential specification.
Urls ==
    {<<>>, U_tcp, U_udp, U_unix, U_http, U_long, U_unixhost, U_unixesc,
     U_opaque, U_noscheme, U_badport}

\* Destination arguments of the concurrent specification.
UrlsConc == {<<>>, U_tcp, U_http}

Timeouts == {0, 7}

\* pre is the record of the proxy's fields at the call that the call keeps.
CallConnect(t, u, to, cost, pre) ==
    /\ pc[t] = "idle"
    /\ budget >= cost
    /\ budget' = budget - cost
    /\ Goto(t, "C_parse", [Idle EXCEPT !.op = "Connect", !.arg = u, !.to = to,
                                       !.pre = pre])
    /\ UNCHANGED <<buf, url, conn, timeout, mu, conns, wire, handlers, renderers, last>>

\* A caller answers a Connect whose dial failed with Connect(""), default
\* timeout; the new call keeps, with the proxy's fields, what the failed
\* call had dialed.
Redial(t) ==
    /\ pc[t] = "ret"
    /\ loc[t].op = "Connect"
    /\ loc[t].res = "ErrSyslogConnection"
    /\ Goto(t, "C_parse",
            [Idle EXCEPT !.op = "Connect",
                         !.pre = [url |-> url, conn |-> conn, timeout |-> timeout,
                                  conns |-> conns, failed |-> loc[t].dialed]])
    /\ UNCHANGED <<buf, url, conn, timeout, mu, conns, wire, budget, handlers, renderers, last>>

\* Mutant: every scheme is accepted.
schemeRejectedNever(scheme) == FALSE

\* slices.Index(allowedProto, u.Scheme) == -1 (line 96)
schemeRejected(scheme) == scheme \notin allowedProto

\* lines 86-109: take the stored url for "", parse, check the scheme,
\* store the normalized url, substitute the default timeout
C_parse(t) ==
    /\ pc[t] = "C_parse"
    /\ LET l == loc[t]
           u0 == IF l.arg = <<>> THEN url ELSE l.arg
           u == urlParse(u0)
       IN IF u.err \/ schemeRejected(u.Scheme)
          THEN Exit(t, "ErrSyslogURLparse", l) /\ UNCHANGED url
          ELSE /\ url' = normalizedURL(u)
               /\ Goto(t, "C_dial",
                       [l EXCEPT !.proto = u.Scheme, !.addr = connectAddr(u),
                                 !.to = IF l.to = 0 THEN defaultDialTimeout ELSE l.to])
    /\ UNCHANGED <<buf, conn, timeout, mu, conns, wire, budget, handlers, renderers, last>>

\* Mutant: a failed dial drops the installed connection.
dialFailedDisconnects(t, l) ==
    /\ Exit(t, "ErrSyslogConnection", l)
    /\ conn' = 0
    /\ conns' = IF conn # 0 THEN [conns EXCEPT ![conn] = "closed"] ELSE conns
    /\ UNCHANGED timeout

\* What Connect does to the proxy when the dial failed (lines 113-115).
dialFailed(t, l) ==
    /\ Exit(t, "ErrSyslogConnection", l)
    /\ UNCHANGED <<conn, conns, timeout>>

\* net.DialTimeout (lines 112-115)
C_dial(t) ==
    /\ pc[t] = "C_dial"
    /\ LET l == [loc[t] EXCEPT !.dialed = <<loc[t].proto, loc[t].addr>>] IN
       \E ok \in BOOLEAN :
          IF ok
          THEN /\ dialable(l.proto, l.addr)
               /\ Len(conns) < MaxConns
               /\ conns' = Append(conns, "open")
               /\ Goto(t, "C_lock", [l EXCEPT !.c = Len(conns) + 1])
               /\ UNCHANGED <<conn, timeout>>
          ELSE dialFailed(t, l)
    /\ UNCHANGED <<buf, url, mu, wire, budget, handlers, renderers, last>>

\* Mutant: Connect swaps the connection without waiting for the mutex.
C_lockNoWait(t) ==
    /\ pc[t] = "C_lock"
    /\ mu' = t
    /\ Goto(t, "D_check", [loc[t] EXCEPT !.locked = TRUE])
    /\ UNCHANGED <<buf, url, conn, timeout, conns, wire, budget, handlers, renderers, last>>

\* s.mu.Lock() (line 118), then s.Disconnect() (line 120)
C_lock(t) ==
    /\ pc[t] = "C_lock"
    /\ mu = 0
    /\ mu' = t
    /\ Goto(t, "D_check", [loc[t] EXCEPT !.locked = TRUE])
    /\ UNCHANGED <<buf, url, conn, timeout, conns, wire, budget, handlers, renderers, last>>

\* s.conn = c; s.timeout = timeout; return nil (lines 121-123)
C_install(t) ==
    /\ pc[t] = "C_install"
    /\ conn' = loc[t].c
    /\ timeout' = loc[t].to
    /\ Exit(t, "nil", loc[t])
    /\ UNCHANGED <<buf, url, mu, conns, wire, budget, handlers, renderers, last>>

\* The deferred s.mu.Unlock() of Connect and of Handle (lines 119, 286)
Unlock(t) ==
    /\ pc[t] = "unlock"
    /\ mu' = 0
    /\ pc' = [pc EXCEPT ![t] = "ret"]
    /\ UNCHANGED <<buf, url, conn, timeout, conns, wire, budget, loc, handlers, renderers, last>>

\* The call has returned loc[t].res to its caller.
Return(t) ==
    /\ pc[t] = "ret"
    /\ Goto(t, "idle", Idle)
    /\ UNCHANGED <<buf, url, conn, timeout, mu, conns, wire, budget, handlers, renderers, last>>

\* -----------------------------------------------------------------
\* SyslogProxy.ProcessLines (lines 139-173)
\* -----------------------------------------------------------------
CallProcessLines(t, tr) ==
    /\ pc[t] = "idle"
    /\ Goto(t, "PL_check", [Idle EXCEPT !.op = "ProcessLines", !.tr = tr])
    /\ UNCHANGED <<buf, url, conn, timeout, mu, conns, wire, budget, handlers, renderers, last>>

\* Mutant: the proxy always reports connected.
IsConnectedAlways == TRUE

\* SyslogProxy.IsConnected (lines 126-128)
IsConnected == conn # 0

\* if !s.IsConnected() (lines 140-142)
PL_check(t) ==
    /\ pc[t] = "PL_check"
    /\ LET l == [loc[t] EXCEPT !.drain = TRUE, !.dbuf = buf, !.dwire = Len(wire)] IN
       IF ~IsConnected
       THEN Exit(t, "ErrSyslogConnection", l)
       ELSE Goto(t, "PL_deadline", l)
    /\ UNCHANGED <<buf, url, conn, timeout, mu, conns, wire, budget, handlers, renderers, last>>

\* s.conn.SetWriteDeadline (lines 143-145), bufio.NewScanner (line 149)
PL_deadline(t) ==
    /\ pc[t] = "PL_deadline"
    /\ IF conn = 0 THEN Exit(t, "panic", loc[t])
       ELSE IF conns[conn] = "closed" THEN Exit(t, "ErrSyslogConnection", loc[t])
       ELSE Goto(t, "PL_scan", [loc[t] EXCEPT !.sc = NewScanner])
    /\ UNCHANGED <<buf, url, conn, timeout, mu, conns, wire, budget, handlers, renderers, last>>

\* Mutant: blank lines are not skipped.
lineSkippedNever(line) == FALSE

\* line != "" (line 152)
lineSkipped(line) == line = <<>>

\* scanner.Scan(), scanner.Text(), processFunc (lines 150-156); when the
\* scanner stops, scanner.Err() (lines 169-172)
PL_scan(t) ==
    /\ pc[t] = "PL_scan"
    /\ LET l == loc[t]
           r == Scan(l.sc, buf)
           p == processFunc(l.tr, r.tok)
           l1 == [l EXCEPT !.sc = r.sc]
           l2 == [l1 EXCEPT !.toks = Append(l.toks, r.tok)]
       IN /\ buf' = r.src
          /\ IF ~r.ok
             THEN Exit(t, IF ScannerErr(r.sc) = "nil" THEN "nil"
                          ELSE "ErrSyslogProcessHandleResult", l1)
             ELSE IF lineSkipped(r.tok) THEN Goto(t, "PL_scan", l1)
             ELSE IF p.err # "nil" THEN Exit(t, p.err, l2)
             ELSE Goto(t, "PL_write", [l2 EXCEPT !.line = p.out])
    /\ UNCHANGED <<url, conn, timeout, mu, conns, wire, budget, handlers, renderers, last>>

\* The bytes a successful conn.Write of data on connection c puts on the wire.
Sent(c, data) == [i \in 1..Len(data) |-> [conn |-> c, b |-> data[i]]]

\* Where the drain goes after a failed conn.Write (lines 158-160, 163-165).
writeFailed(t, l) == Exit(t, "ErrSyslogWrite", [l EXCEPT !.wfail = TRUE])

\* s.conn.Write(line) (lines 157-161): a nil s.conn is a nil dereference,
\* a closed or failing connection a write error; line[len(line)-1] on an
\* empty line is an index out of range.
PL_write(t) ==
    /\ pc[t] = "PL_write"
    /\ LET l == loc[t] IN
       IF conn = 0 THEN Exit(t, "panic", l) /\ UNCHANGED wire
       ELSE IF conns[conn] = "closed" THEN writeFailed(t, l) /\ UNCHANGED wire
       ELSE \E ok \in BOOLEAN :
              IF ~ok THEN writeFailed(t, l) /\ UNCHANGED wire
              ELSE /\ wire' = wire \o Sent(conn, l.line)
                   /\ IF l.line = <<>> THEN Exit(t, "panic", l)
                      ELSE IF Last(l.line) # NL THEN Goto(t, "PL_writeNL", l)
                      ELSE Goto(t, "PL_scan", l)
    /\ UNCHANGED <<buf, url, conn, timeout, mu, conns, budget, handlers, renderers, last>>

\* s.conn.Write([]byte("\n")) (lines 162-165)
PL_writeNL(t) ==
    /\ pc[t] = "PL_writeNL"
    /\ LET l == loc[t] IN
       IF conn = 0 THEN Exit(t, "panic", l) /\ UNCHANGED wire
       ELSE IF conns[conn] = "closed" THEN writeFailed(t, l) /\ UNCHANGED wire
       ELSE \E ok \in BOOLEAN :
              IF ~ok THEN writeFailed(t, l) /\ UNCHANGED wire
              ELSE /\ wire' = wire \o Sent(conn, <<NL>>)
                   /\ Goto(t, "PL_scan", l)
    /\ UNCHANGED <<buf, url, conn, timeout, mu, conns, budget, handlers, renderers, last>>

\* -----------------------------------------------------------------
\* SyslogHandler.Handle (lines 280-294)
\* -----------------------------------------------------------------
\* What the downstream renderer writes for a record when it succeeds.
Records == {<<"a", NL>>, <<"b", NL>>}

\* What a failing downstream renderer has written when it fails: nothing,
\* or the beginning of a record, marked by the byte "p".
PartialOut == {<<>>, <<"p">>}

CallHandle(t, rec, rok, tr) ==
    /\ pc[t] = "idle"
    /\ budget > 0
    /\ budget' = budget - 1
    /\ Goto(t, "H_check", [Idle EXCEPT !.op = "Handle", !.rec = rec, !.rok = rok,
                                       !.tr = tr])
    /\ UNCHANGED <<buf, url, conn, timeout, mu, conns, wire, handlers, renderers, last>>

\* Mutant: Handle goes on without a connection.
notConnectedIgnored(t, l) == Goto(t, "H_lock", l)

\* Where Handle goes when the proxy is not connected (lines 281-283).
notConnected(t, l) == Exit(t, "ErrSyslogConnection", l)

\* if !h.syslogPx.IsConnected() (lines 281-283)
H_check(t) ==
    /\ pc[t] = "H_check"
    /\ IF ~IsConnected THEN notConnected(t, loc[t]) ELSE Goto(t, "H_lock", loc[t])
    /\ UNCHANGED <<buf, url, conn, timeout, mu, conns, wire, budget, handlers, renderers, last>>

\* Mutant: Lock does not wait.
lockFreeAlways(t) == TRUE

\* The mutex can be acquired (sync.Mutex.Lock, lines 67-69).
lockFree(t) == mu = 0

\* h.syslogPx.Lock() (line 285)
H_lock(t) ==
    /\ pc[t] = "H_lock"
    /\ lockFree(t)
    /\ mu' = t
    /\ Goto(t, "H_render", [loc[t] EXCEPT !.locked = TRUE])
    /\ UNCHANGED <<buf, url, conn, timeout, conns, wire, budget, handlers, renderers, last>>

\* Mutant: a renderer failure returns without running the deferred Unlock.
renderFailedKeepsLock(t, l) ==
    /\ loc' = [loc EXCEPT ![t] = [l EXCEPT !.res = "ErrSyslogHandle"]]
    /\ pc' = [pc EXCEPT ![t] = "ret"]

\* Where Handle goes after a renderer failure (lines 287-289).
renderFailed(t, l) == Exit(t, "ErrSyslogHandle", l)

\* h.handler.Handle(ctx, r) writing into s.buf (lines 287-289)
H_render(t) ==
    /\ pc[t] = "H_render"
    /\ buf' = buf \o loc[t].rec
    /\ LET l == [loc[t] EXCEPT !.rendered = TRUE] IN
       IF l.rok THEN Goto(t, "PL_check", l) ELSE renderFailed(t, l)
    /\ UNCHANGED <<url, conn, timeout, mu, conns, wire, budget, handlers, renderers, last>>

\* -----------------------------------------------------------------
\* SyslogHandler: construction, Enabled, Copy, WithAttrs, WithGroup
\* (lines 233-275, 296-318) over a stub downstream slog.Handler
\* -----------------------------------------------------------------
\* slog.LevelDebug, LevelInfo, LevelWarn, LevelError
LevelDebug == 0 - 4

LevelInfo == 0

LevelWarn == 4

LevelError == 8

\* allowedLevels: the fixed severity list NewSyslogHandler scans, from the
\* most verbose level to the most severe.
allowedLevels == <<LevelDebug, LevelInfo, LevelWarn, LevelError>>

\* The levels a caller asks Enabled about.
Levels == {0 - 8, LevelDebug, LevelInfo, 2, LevelWarn, LevelError, 12}

\* The enabled policies of the stub downstream renderer: the set of levels
\* it reports enabled.
Policies ==
    {{}, {LevelError, 12}, {LevelInfo, 2, LevelWarn, LevelError, 12},
     {LevelDebug, LevelWarn}, Levels}

\* The handler's own transforms: the default closure installed for nil
\* options (lines 300-305), or the caller's.
HandlerTransforms == {"default", "id"}

Attrs == {<<>>, <<"k">>}

GroupNames == {<<>>, <<"g">>}

\* A call on a handler or renderer can be made.
CanCall ==
    /\ budget > 0
    /\ \A t \in Threads : pc[t] = "idle"

\* The variables of the proxy and of its callers.
proxyVars == <<buf, url, conn, timeout, mu, conns, wire, pc, loc>>

\* The caller constructs a downstream renderer with enabled policy p
\* (slog.NewJSONHandler in the package comment, line 7).
NewRenderer(p) ==
    /\ CanCall
    /\ renderers' = Append(renderers, [enabled |-> p, base |-> 0, with |-> <<>>])
    /\ last' = [NoCall EXCEPT !.op = "NewRenderer", !.ret = Len(renderers) + 1]
    /\ budget' = budget - 1
    /\ UNCHANGED <<handlers, proxyVars>>

\* The downstream renderer's enabled policy changes after construction.
SetEnabled(r, p) ==
    /\ CanCall
    /\ r \in 1..Len(renderers)
    /\ renderers[r].enabled # p
    /\ renderers' = [renderers EXCEPT ![r].enabled = p]
    /\ last' = [NoCall EXCEPT !.op = "SetEnabled", !.recv = r]
    /\ budget' = budget - 1
    /\ UNCHANGED <<handlers, proxyVars>>

\* h.Enabled(ctx, logLevel) of the downstream renderer (line 312)
rendererEnabled(r, level) == level \in renderers[r].enabled

\* Mutant: the loop has no break, the last enabled level of the list wins.
RECURSIVE lastEnabledFrom(_, _)
lastEnabledFrom(r, i) ==
    IF i > Len(allowedLevels) THEN 0
    ELSE IF \E k \in (i + 1)..Len(allowedLevels) : rendererEnabled(r, allowedLevels[k])
         THEN lastEnabledFrom(r, i + 1)
    ELSE IF rendererEnabled(r, allowedLevels[i]) THEN allowedLevels[i]
    ELSE 0

\* for _, logLevel := range allowedLevels (lines 311-316): the first level
\* of the list the downstream reports enabled; the zero value when none is.
RECURSIVE firstEnabledFrom(_, _)
firstEnabledFrom(r, i) ==
    IF i > Len(allowedLevels) THEN 0
    ELSE IF rendererEnabled(r, allowedLevels[i]) THEN allowedLevels[i]
    ELSE firstEnabledFrom(r, i + 1)

\* The levels of the list that renderer r reports enabled now.
Probed(r) ==
    {allowedLevels[i] : i \in {k \in 1..Len(allowedLevels) :
                                   rendererEnabled(r, allowedLevels[k])}}

\* NewSyslogHandler(syslogPx, h, opts) (lines 296-318).  probed records
\* what the downstream answered to the probes of this construction.
NewSyslogHandler(r, tr) ==
    /\ CanCall
    /\ r \in 1..Len(renderers)
    /\ handlers' = Append(handlers,
                          [syslogPx |-> 1, handler |-> r,
                           level |-> firstEnabledFrom(r, 1),
                           lineProcessFunc |-> tr,
                           probed |-> Probed(r)])
    /\ last' = [NoCall EXCEPT !.op = "NewSyslogHandler", !.ret = Len(handlers) + 1]
    /\ budget' = budget - 1
    /\ UNCHANGED <<renderers, proxyVars>>

\* SyslogHandler.Enabled (lines 252-254)
Enabled(h, level) == level >= handlers[h].level

\* SyslogHandler.Copy (lines 240-248): a new struct with the fields of h
Copy(h) == handlers[h]

\* The renderer that the downstream's WithAttrs / WithGroup returns: the
\* downstream itself for an empty argument, a new derived renderer otherwise.
Derives(kind, arg) == arg # <<>>

Derived(r, kind, arg) == [enabled |-> renderers[r].enabled, base |-> r,
                          with |-> <<kind, arg>>]

\* hh := h.Copy(); hh.handler = h.handler.WithAttrs(aa) / WithGroup(name);
\* return hh (lines 259-261, 269-270)
WithDerived(h, kind, arg) ==
    LET r == handlers[h].handler
        d == IF Derives(kind, arg) THEN Len(renderers) + 1 ELSE r
    IN /\ renderers' = IF Derives(kind, arg)
                       THEN Append(renderers, Derived(r, kind, arg))
                       ELSE renderers
       /\ handlers' = Append(handlers, [Copy(h) EXCEPT !.handler = d])
       /\ last' = [op |-> kind, recv |-> h, arg |-> arg, derived |-> d,
                   ret |-> Len(handlers) + 1]

\* SyslogHandler.WithAttrs (lines 258-262)
WithAttrs(h, aa) ==
    /\ CanCall
    /\ h \in 1..Len(handlers)
    /\ WithDerived(h, "WithAttrs", aa)
    /\ budget' = budget - 1
    /\ UNCHANGED proxyVars

\* Mutant: an empty group name is treated like any other.
groupNamedAlways(name) == TRUE

\* if name != "" (line 268)
groupNamed(name) == name # <<>>

\* SyslogHandler.WithGroup (lines 266-275)
WithGroup(h, name) ==
    /\ CanCall
    /\ h \in 1..Len(handlers)
    /\ IF groupNamed(name)
       THEN WithDerived(h, "WithGroup", name)
       ELSE /\ last' = [op |-> "WithGroup", recv |-> h, arg |-> name,
                        derived |-> 0, ret |-> h]
            /\ UNCHANGED <<handlers, renderers>>
    /\ budget' = budget - 1
    /\ UNCHANGED proxyVars

\* =================================================================
\* Specifications
\* =================================================================

\* A step inside a call.
Step(t) ==
    \/ D_check(t) \/ D_close(t) \/ D_nil(t)
    \/ C_parse(t) \/ C_dial(t) \/ C_lock(t) \/ C_install(t)
    \/ PL_check(t) \/ PL_deadline(t) \/ PL_scan(t) \/ PL_write(t) \/ PL_writeNL(t)
    \/ H_check(t) \/ H_lock(t) \/ H_render(t)
    \/ Unlock(t) \/ Return(t)

HandleCalls(t) ==
    \/ \E rec \in Records, tr \in Transforms : CallHandle(t, rec, TRUE, tr)
    \/ \E rec \in PartialOut : CallHandle(t, rec, FALSE, "id")

\* Goroutines calling Handle, Connect and Disconnect concurrently; every
\* call counts against the budget.
Init == Constructed /\ budget = MaxCalls

Next ==
    \E t \in Threads :
        \/ Step(t)
        \/ CallHandle(t, <<"a", NL>>, TRUE, "id")
        \/ CallHandle(t, <<"b", NL>>, TRUE, "errb")
        \/ CallHandle(t, <<"p">>, FALSE, "id")
        \/ CallConnect(t, U_tcp, 0, 1, NoSnapshot)
        \/ CallDisconnect(t, 1)

Spec == Init /\ [][Next]_vars

\* In the sequential specifications only the writes into the buffer count
\* against the budget.
InitSeq == Constructed /\ budget = MaxWrites

\* The steps of Connect, Disconnect and ProcessLines.
DrainStep(t) ==
    \/ D_check(t) \/ D_close(t) \/ D_nil(t)
    \/ C_parse(t) \/ C_dial(t) \/ C_lock(t) \/ C_install(t)
    \/ PL_check(t) \/ PL_deadline(t) \/ PL_scan(t) \/ PL_write(t) \/ PL_writeNL(t)
    \/ Unlock(t) \/ Return(t)

\* One goroutine calling Connect, Disconnect, Writer().Write and
\* ProcessLines, one call after the other.
NextDrain ==
    \/ DrainStep(1)
    \/ CallConnect(1, U_tcp, 0, 0, NoSnapshot)
    \/ CallDisconnect(1, 0)
    \/ \E tr \in Transforms : CallProcessLines(1, tr)
    \/ \E data \in WriteChunks : CallWrite(1, data)

SpecDrain == InitSeq /\ [][NextDrain]_vars

\* One goroutine calling Connect, Disconnect and Handle, one call after
\* the other.
NextSeq ==
    \/ Step(1)
    \/ HandleCalls(1)
    \/ CallConnect(1, U_tcp, 0, 0, NoSnapshot)
    \/ CallDisconnect(1, 0)

SpecSeq == InitSeq /\ [][NextSeq]_vars

\* The steps of Connect and Disconnect.
ConnStep(t) ==
    \/ D_check(t) \/ D_close(t) \/ D_nil(t)
    \/ C_parse(t) \/ C_dial(t) \/ C_lock(t) \/ C_install(t)
    \/ Unlock(t) \/ Return(t)

\* One goroutine calling Connect, with every destination and timeout, and
\* Disconnect, one call after the other.
NextConn ==
    \/ ConnStep(1)
    \/ \E u \in Urls, to \in Timeouts : CallConnect(1, u, to, 0, Snapshot)
    \/ CallDisconnect(1, 0)

SpecConn == InitSeq /\ [][NextConn]_vars

\* The same, with a caller that may answer a failed dial with Connect("").
NextRedial ==
    \/ NextConn
    \/ Redial(1)

SpecRedial == InitSeq /\ [][NextRedial]_vars

\* One goroutine calling Connect, Disconnect and Handle with the identity
\* transform, one call after the other.
NextId ==
    \/ Step(1)
    \/ \E rec \in Records : CallHandle(1, rec, TRUE, "id")
    \/ \E rec \in PartialOut : CallHandle(1, rec, FALSE, "id")
    \/ CallConnect(1, U_tcp, 0, 0, NoSnapshot)
    \/ CallDisconnect(1, 0)

SpecId == InitSeq /\ [][NextId]_vars

\* A caller constructing downstream renderers and handlers, deriving
\* handlers and changing the renderers' enabled policy, one call after the
\* other; every call counts against the budget.
NextHandler ==
    \/ \E p \in Policies : NewRenderer(p)
    \/ \E r \in 1..MaxCalls, p \in Policies : SetEnabled(r, p)
    \/ \E r \in 1..MaxCalls, tr \in HandlerTransforms : NewSyslogHandler(r, tr)
    \/ \E h \in 1..MaxCalls, aa \in Attrs : WithAttrs(h, aa)
    \/ \E h \in 1..MaxCalls, name \in GroupNames : WithGroup(h, name)

SpecHandler == Init /\ [][NextHandler]_vars

\* A record whose line does not fit the scanner's largest buffer.
LongRecord == [i \in 1..MaxScanTokenSize |-> "a"] \o <<NL>>

\* Goroutines calling Handle, with records and transforms that take it
\* through each of its exits, Connect and Disconnect concurrently.
NextLock ==
    \E t \in Threads :
        \/ Step(t)
        \/ CallHandle(t, <<"a", NL>>, TRUE, "id")
        \/ CallHandle(t, <<"b", NL>>, TRUE, "errb")
        \/ CallHandle(t, LongRecord, TRUE, "id")
        \/ CallHandle(t, <<"p">>, FALSE, "id")
        \/ CallConnect(t, U_tcp, 0, 1, NoSnapshot)
        \/ CallDisconnect(t, 1)

\* The steps of a call from its Lock (or, in Disconnect, its first
\* statement) to its deferred Unlock.
LockStep(t) ==
    \/ H_lock(t) \/ H_render(t)
    \/ PL_check(t) \/ PL_deadline(t) \/ PL_scan(t) \/ PL_write(t) \/ PL_writeNL(t)
    \/ C_lock(t) \/ D_check(t) \/ D_close(t) \/ D_nil(t) \/ C_install(t)
    \/ Unlock(t)

\* The Go scheduler lets a goroutine that waits for the mutex, or runs
\* between Lock and Unlock, take its next step when it can.
SpecLock == Init /\ [][NextLock]_vars /\ \A t \in Threads : WF_vars(LockStep(t))

\* =================================================================
\* Properties
\* =================================================================

\* The call of goroutine t has finished with its result in loc[t].res.
Returned(t, op) == pc[t] = "ret" /\ loc[t].op = op

\* The complete (newline-terminated) lines of b, without their terminators.
RECURSIVE LinesOf(_)
LinesOf(b) ==
    LET i == Index(b, NL) IN
    IF i = 0 THEN <<>> ELSE <<Take(b, i - 1)>> \o LinesOf(Drop(b, i))

\* What follows the last line terminator of b.
TailOf(b) == Drop(b, LastIndex(b, NL))

\* The frames of the non-empty lines: each line followed by one "\n".
RECURSIVE FramesOf(_)
FramesOf(lines) ==
    IF lines = <<>> THEN <<>>
    ELSE (IF Head(lines) = <<>> THEN <<>> ELSE Append(Head(lines), NL))
         \o FramesOf(Tail(lines))

\* The bytes put on the wire since the drain of goroutine t began.
WrittenBy(t) == [i \in 1..(Len(wire) - loc[t].dwire) |-> wire[loc[t].dwire + i].b]

\* All of them went to the installed connection.
WrittenToConn(t) == \A i \in (loc[t].dwire + 1)..Len(wire) : wire[i].conn = conn

\* Every line of b fits the scanner's largest buffer with its terminator.
LinesFit(b) == \A k \in 1..Len(LinesOf(b)) : Len(LinesOf(b)[k]) < MaxScanTokenSize

\* A drain with the identity transform, connected, in which no write failed,
\* of a buffer made only of newline-terminated lines.
C2_Case(t) ==
    /\ Returned(t, "ProcessLines")
    /\ conn # 0
    /\ loc[t].tr = "id"
    /\ ~loc[t].wfail
    /\ TailOf(loc[t].dbuf) = <<>>

C2_Result(t) ==
    /\ loc[t].res = "nil"
    /\ buf = <<>>
    /\ WrittenBy(t) = FramesOf(LinesOf(loc[t].dbuf))
    /\ WrittenToConn(t)

C3_Case(t) ==
    /\ Returned(t, "ProcessLines")
    /\ loc[t].tr = "id"
    /\ loc[t].res = "nil"
    /\ TailOf(loc[t].dbuf) # <<>>

C4_DrainState ==
    \A t \in Threads :
        Returned(t, "ProcessLines") /\ conn = 0
            => /\ loc[t].res = "ErrSyslogConnection"
               /\ buf = loc[t].dbuf
               /\ Len(wire) = loc[t].dwire
               /\ loc[t].toks = <<>>

\* No step of Connect or Disconnect changes the buffer.
C4_ConnectKeepsBuffer ==
    \A t \in Threads : loc[t].op \in {"Connect", "Disconnect"} => buf' = buf

\* C4: a drain while disconnected fails with a connection error without
\* writing, transforming or consuming anything, and connecting afterwards
\* leaves the buffer to the next drain.
C4_DisconnectedDrain == []C4_DrainState /\ [][C4_ConnectKeepsBuffer]_vars

\* A drain of a non-empty buffer has failed for want of a connection.
C4_Witness ==
    \E t \in Threads :
        /\ Returned(t, "ProcessLines")
        /\ conn = 0
        /\ loc[t].res = "ErrSyslogConnection"
        /\ buf = <<"a", NL>>

\* C5 as stated: a drain that ends with the transform's error or a write
\* error on line k has written exactly the frames of the non-empty lines
\* before k; a write failure is reported as a write error and the
\* transform's error as it is, never as success.
C5_Original ==
    \A t \in Threads :
        Returned(t, "ProcessLines") /\ loc[t].tr \in {"id", "nl", "errb"}
            => /\ loc[t].wfail => loc[t].res = "ErrSyslogWrite"
               /\ loc[t].res \in {"ErrSyslogWrite", "ErrTransform"}
                    => WrittenBy(t) =
                         FramesOf(Take(loc[t].toks, Len(loc[t].toks) - 1))

\* Goroutine t is in Handle between the start of its renderer and the
\* return of its drain.
InRenderDrain(t) ==
    /\ loc[t].op = "Handle"
    /\ pc[t] \in {"H_render", "PL_check", "PL_deadline", "PL_scan", "PL_write",
                  "PL_writeNL"}

C1_OneAtATime ==
    \A t1, t2 \in Threads : t1 # t2 => ~(InRenderDrain(t1) /\ InRenderDrain(t2))

\* While t is between render and drain return, every step that changes the
\* buffer or the wire is a step of t.
C1_OthersKeepOut ==
    \A t \in Threads :
        InRenderDrain(t) /\ (buf' # buf \/ wire' # wire)
            => pc'[t] # pc[t] \/ loc'[t] # loc[t]

\* C1: the render+drain sequences of concurrent Handle calls on one proxy
\* are serialized: no two are in progress at once, and while one is in
\* progress no other call touches the buffer or writes to the connection.
C1_Serialized == []C1_OneAtATime /\ [][C1_OthersKeepOut]_vars

\* One goroutine is in the middle of its drain, between the write of a line
\* and the write of its terminator, while another waits for the lock.
C1_Witness ==
    \E t1, t2 \in Threads :
        /\ pc[t1] = "PL_writeNL" /\ loc[t1].op = "Handle"
        /\ pc[t2] = "H_lock"

\* A Handle call that returns with the proxy disconnected returns a
\* connection error and has neither locked nor rendered.
C6_Returns ==
    \A t \in Threads :
        Returned(t, "Handle") /\ conn = 0
            => /\ loc[t].res = "ErrSyslogConnection"
               /\ ~loc[t].rendered
               /\ ~loc[t].locked
               /\ ~loc[t].drain

\* The connected check of Handle, taken while disconnected, ends the call
\* and changes neither buffer, connection, wire nor mutex.
C6_CheckChangesNothing ==
    \A t \in Threads :
        pc[t] = "H_check" /\ conn = 0 /\ pc'[t] # pc[t]
            => /\ pc'[t] = "ret"
               /\ UNCHANGED <<buf, conn, conns, wire, mu, url, timeout>>

\* C6: Handle called while the proxy is disconnected returns a connection
\* error at once: the renderer is not invoked, the lock not acquired, the
\* buffer and the connection not changed.
C6_HandleDisconnected == []C6_Returns /\ [][C6_CheckChangesNothing]_vars

\* A Handle call has returned a connection error while disconnected, with
\* bytes of an earlier failed render still in the buffer.
C6_Witness ==
    \E t \in Threads :
        /\ Returned(t, "Handle")
        /\ conn = 0
        /\ loc[t].res = "ErrSyslogConnection"
        /\ buf = <<"p">>

\* C7 as stated: when the renderer fails, Handle returns a handle error
\* without running the drain, and what the renderer had written (the byte
\* "p") is never put on the wire, neither by this call nor by a later one.
C7_Original ==
    /\ \A t \in Threads :
          Returned(t, "Handle") /\ loc[t].rendered /\ ~loc[t].rok
              => loc[t].res = "ErrSyslogHandle" /\ ~loc[t].drain
    /\ \A i \in 1..Len(wire) : wire[i].b # "p"

\* A Connect call that dialed and got no connection.
C8_Case(t) == Returned(t, "Connect") /\ loc[t].dialed # <<>> /\ loc[t].c = 0

\* C8: when the dial fails, Connect returns a connection error and the
\* installed connection handle, its open state and the stored timeout are
\* what they were before the call.
C8_DialFailureKeepsConn ==
    \A t \in Threads :
        C8_Case(t) => /\ loc[t].res = "ErrSyslogConnection"
                      /\ conn = loc[t].pre.conn
                      /\ conns = loc[t].pre.conns
                      /\ timeout = loc[t].pre.timeout

\* A dial has failed while a connection with a non-default timeout was
\* installed; the connection is still installed and open.
C8_Witness ==
    \E t \in Threads :
        /\ C8_Case(t)
        /\ conn # 0
        /\ conns[conn] = "open"
        /\ timeout = 7
        /\ loc[t].to # 7

\* The destination a Connect call works on: its argument, or the stored
\* destination for "".
DestinationOf(t) == IF loc[t].arg = <<>> THEN loc[t].pre.url ELSE loc[t].arg

\* A Connect call whose destination parses and has a scheme other than
\* tcp, udp, unix.
C9_Case(t) ==
    /\ Returned(t, "Connect")
    /\ ~urlParse(DestinationOf(t)).err
    /\ urlParse(DestinationOf(t)).Scheme \notin {S_tcp, <<"u", "d", "p">>, S_unix}

\* C9: Connect with an unsupported scheme fails with a URL-parse error
\* without dialing and leaves the installed connection, the stored
\* destination and the stored timeout unchanged.
C9_BadSchemeRejected ==
    \A t \in Threads :
        C9_Case(t) => /\ loc[t].res = "ErrSyslogURLparse"
                      /\ loc[t].dialed = <<>>
                      /\ conn = loc[t].pre.conn
                      /\ conns = loc[t].pre.conns
                      /\ url = loc[t].pre.url
                      /\ timeout = loc[t].pre.timeout

\* Connect("http://x") was rejected while a connection was installed.
C9_Witness ==
    \E t \in Threads :
        /\ C9_Case(t)
        /\ loc[t].arg = U_http
        /\ conn # 0
        /\ url = U_unix
        /\ loc[t].res = "ErrSyslogURLparse"

\* C10 as stated: Connect("") on a stored destination dials exactly the
\* stored scheme://address and leaves the stored destination unchanged.
C10_Original ==
    \A t \in Threads :
        Returned(t, "Connect") /\ loc[t].arg = <<>> /\ loc[t].dialed # <<>>
            => /\ url = loc[t].pre.url
               /\ loc[t].dialed[1] \o S_sep \o loc[t].dialed[2] = loc[t].pre.url

\* A step of a Connect call that closes a connection or changes the installed
\* one is taken with the mutex held by that call, while no Handle call is
\* between its render and the return of its drain.
C11_SwapUnderLock ==
    \A t \in Threads :
        /\ loc[t].op = "Connect"
        /\ pc'[t] # pc[t]
        /\ (conn' # conn \/ \E k \in 1..Len(conns) : conns'[k] # conns[k])
        => /\ mu = t
           /\ \A t2 \in Threads \ {t} : ~InRenderDrain(t2)

\* What the drain of a Handle call that holds the mutex has written so far
\* went to one connection.
C11_DrainOneConn ==
    \A t \in Threads :
        loc[t].op = "Handle" /\ loc[t].drain /\ mu = t
            => \A i \in (loc[t].dwire + 1)..Len(wire) :
                   wire[i].conn = wire[loc[t].dwire + 1].conn

\* C11: a successful Connect concurrent with an in-flight Handle closes the
\* old connection and installs the new one only under the proxy lock, after
\* that Handle's drain has finished, so no drain has its connection closed
\* by Connect under it or splits its lines between two connections.
C11_ConnectWaitsForDrain == []C11_DrainOneConn /\ [][C11_SwapUnderLock]_vars

\* A Connect call has dialed its connection and waits for the lock while a
\* Handle call is in its drain, between a line and its terminator.
C11_Witness ==
    \E t1, t2 \in Threads :
        /\ pc[t1] = "PL_writeNL" /\ loc[t1].op = "Handle"
        /\ pc[t2] = "C_lock" /\ loc[t2].c # 0
        /\ conn # 0 /\ conn # loc[t2].c

\* C12 as stated: Disconnect waits for the proxy lock, so a Handle call's
\* drain that has passed its connected check finds the connection installed
\* and open until it returns.
C12_Original ==
    \A t \in Threads :
        /\ loc[t].op = "Handle"
        /\ pc[t] \in {"PL_deadline", "PL_scan", "PL_write", "PL_writeNL"}
        => conn # 0 /\ conns[conn] = "open"

\* The mutex is held only by a Handle or Connect call that acquired it and
\* has not yet run its deferred Unlock; a call waiting for the mutex, or one
\* that has returned, does not hold it.
C13_HeldOnlyInside ==
    \A t \in Threads :
        mu = t => /\ loc[t].op \in {"Handle", "Connect"}
                  /\ loc[t].locked
                  /\ pc[t] \in {"H_render", "PL_check", "PL_deadline", "PL_scan",
                                "PL_write", "PL_writeNL", "D_check", "D_close",
                                "D_nil", "C_install", "unlock"}

\* A call that acquired the mutex has released it when it returns.
C13_ReleasedOnReturn ==
    \A t \in Threads : pc[t] = "ret" /\ loc[t].locked => mu # t

\* A Handle or Connect call waiting for the mutex acquires it.
C13_WaiterAcquires ==
    \A t \in Threads : (pc[t] \in {"H_lock", "C_lock"}) ~> (mu = t)

\* C13: every Handle call that acquires the proxy lock releases it on
\* every exit path, Connect never re-acquires the lock it holds, the lock is
\* held only inside a Handle or Connect critical section, and under fair
\* scheduling every call waiting for the lock eventually acquires it.
C13_LockReleased ==
    /\ [](C13_HeldOnlyInside /\ C13_ReleasedOnReturn)
    /\ C13_WaiterAcquires

\* A Handle call whose drain ended with a scan error is about to run its
\* deferred Unlock while another call waits for the lock.
C13_Witness ==
    \E t1, t2 \in Threads :
        /\ pc[t1] = "unlock" /\ loc[t1].op = "Handle"
        /\ loc[t1].res = "ErrSyslogProcessHandleResult"
        /\ mu = t1
        /\ pc[t2] \in {"H_lock", "C_lock"}

\* The bytes written to connection c over the proxy's lifetime, in order.
StreamOf(c) ==
    LET s == SelectSeq(wire, LAMBDA x : x.conn = c)
    IN [i \in 1..Len(s) |-> s[i].b]

\* The lines the renderers of the sequential specification can have put
\* into the buffer: the record "a" or "b", after the "p" bytes that failed
\* renders left before it.
IsRenderedLine(line) ==
    /\ line # <<>>
    /\ Last(line) \in {"a", "b"}
    /\ \A i \in 1..(Len(line) - 1) : line[i] = "p"

\* C14 as stated: with the identity transform, the frames written to the
\* connections are, in order, lines that were rendered into the buffer, each
\* written at most once: every frame on a connection is a rendered line, and
\* there are no more frames than Handle calls that rendered.
C14_Original ==
    /\ \A c \in 1..Len(conns) :
          \A k \in 1..Len(LinesOf(StreamOf(c))) :
              IsRenderedLine(LinesOf(StreamOf(c))[k])
    /\ Len(LinesOf([i \in 1..Len(wire) |-> wire[i].b])) <= MaxWrites - budget

\* The one newline-terminated record of a transform output: the output
\* itself when it ends with "\n", the output and a "\n" otherwise.
OneRecord(out) == IF out # <<>> /\ Last(out) = NL THEN out ELSE Append(out, NL)

\* The records of the lines a drain has scanned, under transform tr.
RECURSIVE RecordsOf(_, _)
RecordsOf(tr, toks) ==
    IF toks = <<>> THEN <<>>
    ELSE OneRecord(processFunc(tr, Head(toks)).out) \o RecordsOf(tr, Tail(toks))

\* A connected drain, with a transform that never fails, of lines that fit
\* the scanner, in which no write failed.
C15_Case(t) ==
    /\ Returned(t, "ProcessLines")
    /\ conn # 0
    /\ ~loc[t].wfail
    /\ LinesFit(loc[t].dbuf)
    /\ Len(TailOf(loc[t].dbuf)) < MaxScanTokenSize

\* C15 as stated: whatever the transform returns without error for a
\* non-empty line (terminated, unterminated or empty), the drain completes
\* normally and has put exactly one newline-terminated record on the wire
\* for each line, appending the terminator only where it was missing.
C15_Original ==
    \A t \in Threads :
        C15_Case(t) /\ loc[t].tr \in {"id", "nl", "empty"}
            => /\ loc[t].res = "nil"
               /\ WrittenBy(t) = RecordsOf(loc[t].tr, loc[t].toks)

\* The least element of a non-empty set of levels.
MinOf(S) == CHOOSE x \in S : \A y \in S : x <= y

\* Handler h was constructed over a downstream that reported some level of
\* the list enabled.
C16_Case(h) == handlers[h].probed # {}

\* Its minLevel is the lowest level the downstream reported enabled at
\* construction, and Enabled(level) is level >= minLevel.
C16_MinLevel ==
    \A h \in 1..Len(handlers) :
        C16_Case(h)
            => /\ handlers[h].level = MinOf(handlers[h].probed)
               /\ \A l \in Levels : Enabled(h, l) <=> l >= MinOf(handlers[h].probed)

\* A change of a downstream renderer's enabled policy changes the result of
\* Enabled of no handler.
C16_PolicyChangeKeepsEnabled ==
    last'.op = "SetEnabled" /\ renderers' # renderers
        => \A h \in 1..Len(handlers), l \in Levels :
               (l >= handlers'[h].level) = Enabled(h, l)

C17_Derives ==
    /\ last' # last
    /\ \/ last'.op = "WithAttrs"
       \/ last'.op = "WithGroup" /\ last'.arg # <<>>

\* The renderer d is what the downstream r returns for the derivation: r
\* itself, unchanged, or a new renderer derived from r by that call.
C17_DerivedFrom(d, r, call) ==
    \/ d = r
    \/ /\ d \notin 1..Len(renderers)
       /\ renderers'[d].base = r
       /\ renderers'[d].with = <<call.op, call.arg>>

\* WithGroup("") returns the receiver and allocates nothing; WithAttrs and
\* WithGroup(name) return a handler that did not exist before, whose
\* downstream is the derived renderer and whose proxy, minLevel and
\* transform are the receiver's; every handler that existed, the receiver
\* included, and every renderer that existed is left as it was.
C17_Step ==
    /\ last' # last /\ last'.op = "WithGroup" /\ last'.arg = <<>>
         => /\ last'.ret = last'.recv
            /\ handlers' = handlers
            /\ renderers' = renderers
    /\ C17_Derives
         => LET h == last'.recv
                n == last'.ret
            IN /\ n \notin 1..Len(handlers)
               /\ n \in 1..Len(handlers')
               /\ handlers'[n].handler = last'.derived
               /\ C17_DerivedFrom(last'.derived, handlers[h].handler, last')
               /\ handlers'[n].syslogPx = handlers[h].syslogPx
               /\ handlers'[n].level = handlers[h].level
               /\ handlers'[n].lineProcessFunc = handlers[h].lineProcessFunc
               /\ \A k \in 1..Len(handlers) : handlers'[k] = handlers[k]
               /\ \A k \in 1..Len(renderers) : renderers'[k] = renderers[k]

\* C17: WithGroup("") returns the receiver itself; WithGroup(name) with a
\* non-empty name and WithAttrs(attrs) each return a distinct new handler
\* whose downstream is the derived renderer and whose proxy reference,
\* minLevel and line transform equal the receiver's, and leave every field
\* of the receiver unchanged.
C17_DerivedHandlers == [][C17_Step]_vars

\* WithGroup("g") has returned a new handler over a new derived renderer,
\* with the receiver's transform.
C17_Witness ==
    /\ last.op = "WithGroup" /\ last.arg = <<"g">>
    /\ last.ret # last.recv
    /\ handlers[last.ret].handler = last.derived
    /\ handlers[last.recv].handler # last.derived
    /\ renderers[last.derived].with = <<"WithGroup", <<"g">> >>
    /\ handlers[last.ret].lineProcessFunc = handlers[last.recv].lineProcessFunc

\* C18 as stated: once the concurrent Connect and Disconnect calls have
\* returned (here: each goroutine's call has returned normally), each
\* connection a Connect dialed is the installed one or is closed, and the
\* installed connection is open.
C18_Original ==
    (\A t \in Threads :
        /\ pc[t] = "ret"
        /\ loc[t].op \in {"Connect", "Disconnect"}
        /\ loc[t].res = "nil")
        => /\ \A k \in 1..Len(conns) : conns[k] = "open" => conn = k
           /\ conn # 0 => conns[conn] = "open"

\* -----------------------------------------------------------------
\* C19
\* -----------------------------------------------------------------
IsLine(s) == s # <<>>

\* The non-empty lines of b, its unterminated tail included.
NonEmptyLines(b) == SelectSeq(Append(LinesOf(b), TailOf(b)), IsLine)

\* A drain that was entered connected and ended on a transform error or on
\* a failed write.
C19_Case(t) ==
    /\ Returned(t, "ProcessLines")
    /\ loc[t].res \in {"ErrTransform", "ErrSyslogWrite"}

\* What the aborted drain has taken out of the buffer: the lines up to the
\* failing one, which the scanner returned, and what the scanner had read
\* after them, which only the scanner holds.
C19_Taken(t) ==
    LET l == loc[t]
        k == Len(l.dbuf) - Len(l.sc.data) - Len(buf)
        sent == FramesOf(SubSeq(l.toks, 1, Len(l.toks) - 1))
    IN
    /\ k >= 1
    /\ l.toks # <<>>
    /\ l.toks = NonEmptyLines(Take(l.dbuf, k))
    /\ Drop(l.dbuf, k) = l.sc.data \o buf
    \* the scanner read until its buffer was full or the proxy's was empty
    /\ buf = <<>> \/ l.sc.start + Len(l.sc.data) = l.sc.cap
    /\ Len(l.dbuf) <= StartBufSize => buf = <<>>
    \* the failing line was not forwarded as a frame
    /\ WrittenBy(t) \in
         (IF l.res = "ErrTransform" THEN {sent} ELSE {sent, sent \o Last(l.toks)})

C19_UnsentGone == \A t \in Threads : C19_Case(t) => C19_Taken(t)

\* The aborted drain returns without writing the buffer, its scanner is
\* dropped with the call, and every drain begins with a new scanner.
C19_ScannerDropped ==
    \A t \in Threads :
        /\ C19_Case(t) => buf' = buf /\ (pc'[t] # pc[t] => loc'[t] = Idle)
        /\ pc[t] = "PL_deadline" /\ pc'[t] = "PL_scan" => loc'[t].sc = NewScanner

\* C19: a drain entered connected that aborts on a transform error or a failed
\* write leaves in the buffer only what its scanner had not read (nothing
\* when the content fits the scanner's first read): the failing line and what
\* the scanner had read after it are in neither the buffer nor a frame, and
\* a later drain starts on the buffer with a new scanner.
C19_AbortLosesLines == []C19_UnsentGone /\ [][C19_ScannerDropped]_vars

\* The drain of "aa\nb\n" has aborted on the write of "aa": the scanner had
\* read "b" after it, and the buffer holds only the final "\n".
C19_Witness ==
    \E t \in Threads :
        /\ C19_Case(t)
        /\ loc[t].dbuf = <<"a", "a", NL, "b", NL>>
        /\ loc[t].toks = <<<<"a", "a">>>>
        /\ loc[t].sc.data = <<"b">>
        /\ buf = <<NL>>

\* -----------------------------------------------------------------
\* C20
\* -----------------------------------------------------------------
\* scheme://address of what a Connect call dialed.
DialedURL(t) == loc[t].dialed[1] \o S_sep \o loc[t].dialed[2]

\* A Connect("") that answered a failed dial, made while a connection was
\* installed, has returned.
C20_Redialed(t) ==
    /\ Returned(t, "Connect")
    /\ "failed" \in DOMAIN loc[t].pre
    /\ loc[t].pre.conn # 0

\* After a Connect with a destination argument whose dial failed, the
\* stored destination is the one just dialed and the installed connection
\* is the one from before the call.
C20_StoredBeforeDial ==
    \A t \in Threads :
        C8_Case(t) /\ loc[t].arg # <<>>
            => /\ url = DialedURL(t)
               /\ conn = loc[t].pre.conn
               /\ conns = loc[t].pre.conns

\* The Connect("") that follows works on the destination the failed call
\* stored and dials what the failed call dialed.
C20_RedialsFailed ==
    \A t \in Threads :
        C20_Redialed(t) => /\ loc[t].dialed = loc[t].pre.failed
                           /\ loc[t].pre.url = DialedURL(t)

\* C20 as stated: Connect stores the normalized destination before it dials,
\* so after a failed dial the stored destination is the new one while the
\* installed connection is the previous one, and a following Connect("")
\* dials the failed destination.
C20_Original == C20_StoredBeforeDial /\ C20_RedialsFailed

====
